---- MODULE Spec2Model ----
(***************************************************************************)
(* Accounts-payable payment recommendation: the report normaliser, the     *)
(* budget-constrained allocation engine (filter_and_recommend) and the     *)
(* period loop of main.py.                                                 *)
(*                                                                         *)
(* Money is counted in whole units (one unit stands for 50.00): amounts    *)
(* and budgets are values a Python float holds exactly, so sums and        *)
(* differences are exact; the rounding of decimal fractions by binary      *)
(* floats (at most one unit in the last place) is not modelled.  Values    *)
(* that pandas may turn into NaN / NaT are records [nan, v]; comparisons   *)
(* with NaN are false, as in Python.  Spreadsheet and report cells are     *)
(* records [kind, v]: a cell of kind "num" or "date" parses, a cell of     *)
(* kind "text" does not, a cell of kind "blank" holds NaN (an empty        *)
(* spreadsheet cell, or a cell that failed coercion).                      *)
(* Names are sequences of one-character strings.                           *)
(***************************************************************************)
EXTENDS Integers, Sequences, FiniteSets, TLC

\* ------------------------------------------------------------------ bounds
MaxRows == 2
MaxPeriods == 2
MaxSections == 2

\* ------------------------------------------------------- program constants
\* pd.Timestamp("2024-01-01"), dates written as yyyymmdd
CutoffDate == 20240101
\* filtered_df["Past Due"] >= 45
PastDueThreshold == 45

\* ---------------------------------------------------------- float values
F(n) == [nan |-> FALSE, v |-> n]
NaN == [nan |-> TRUE, v |-> 0]
NaT == [nan |-> TRUE, v |-> 0]

Lt(a, b) == ~a.nan /\ ~b.nan /\ a.v < b.v
Le(a, b) == ~a.nan /\ ~b.nan /\ a.v <= b.v
Gt(a, b) == ~a.nan /\ ~b.nan /\ a.v > b.v
Ge(a, b) == ~a.nan /\ ~b.nan /\ a.v >= b.v
Add(a, b) == IF a.nan \/ b.nan THEN NaN ELSE F(a.v + b.v)
Sub(a, b) == IF a.nan \/ b.nan THEN NaN ELSE F(a.v - b.v)

\* min() that leaves the remaining weekly budget out
min_without_weekly(a, b, c) == IF Lt(b, a) THEN b ELSE a

\* min() that leaves the invoice amount out
min_without_invoice(a, b, c) == IF Lt(c, b) THEN c ELSE b

\* Python's min(a, b, c): keeps the first argument unless a later one
\* compares smaller, so a NaN that is not first is never returned.
min(a, b, c) ==
  LET m1 == IF Lt(b, a) THEN b ELSE a
  IN  IF Lt(c, m1) THEN c ELSE m1

\* ------------------------------------------------------------------ cells
Num(n) == [kind |-> "num", v |-> n]
Day(d) == [kind |-> "date", v |-> d]
Text == [kind |-> "text", v |-> 0]
Blank == [kind |-> "blank", v |-> 0]

\* pd.to_numeric(..., errors="coerce")
to_numeric(c) == IF c.kind = "num" THEN F(c.v) ELSE NaN
\* pd.to_datetime(..., errors="coerce")
to_datetime(c) == IF c.kind = "date" THEN F(c.v) ELSE NaT
\* pd.isna / Series.notna on a spreadsheet cell
isna(c) == c.kind = "blank"

\* ------------------------------------------------------------------ names
\* str.lower on the letters the model uses
lowerChar(c) == CASE c = "A" -> "a" [] c = "B" -> "b" [] OTHER -> c
lower(s) == [i \in DOMAIN s |-> lowerChar(s[i])]

RECURSIVE lstrip(_)
lstrip(s) == IF s # <<>> /\ Head(s) = " " THEN lstrip(Tail(s)) ELSE s
RECURSIVE rstrip(_)
rstrip(s) ==
  IF s # <<>> /\ s[Len(s)] = " " THEN rstrip(SubSeq(s, 1, Len(s) - 1)) ELSE s
\* str.strip
strip(s) == rstrip(lstrip(s))

\* code point order of the characters
ord(c) == CASE c = " " -> 32 [] c = "A" -> 65 [] c = "B" -> 66
            [] c = "a" -> 97 [] c = "b" -> 98 [] OTHER -> 0
\* Python's < on strings
RECURSIVE StrLt(_, _)
StrLt(s, t) ==
  IF t = <<>> THEN FALSE
  ELSE IF s = <<>> THEN TRUE
  ELSE IF ord(Head(s)) # ord(Head(t)) THEN ord(Head(s)) < ord(Head(t))
  ELSE StrLt(Tail(s), Tail(t))

\* ------------------------------------------------------- sequence helpers
RECURSIVE SeqSum(_)
SeqSum(s) == IF s = <<>> THEN 0 ELSE Head(s) + SeqSum(Tail(s))

\* ------------------------------------------------------------ the engine
\* the normalisation without strip()
lower_only(name) == lower(name)

\* lines 84-85, 106: vendor.lower().strip()
normalize(name) == strip(lower(name))

\* lines 93-97: the row with its cells coerced
coerce(row) ==
  [row EXCEPT !.Date = to_datetime(@), !.Due_Date = to_datetime(@),
              !.Past_Due = to_numeric(@), !.Amount = to_numeric(@)]

\* line 107: merge(vendor_table, how="left"): a ledger row once per matching
\* table row, in table order; once with a missing priority when none matches
RECURSIVE merge(_, _)
merge(rows, table) ==
  IF rows = <<>> THEN <<>>
  ELSE LET row == Head(rows)
           hit(t) == t.vendor = row.Vendor
           matches == SelectSeq(table, hit)
           joined ==
             IF matches = <<>>
             THEN << row @@ [priority |-> NaN] >>
             ELSE [k \in DOMAIN matches |->
                     row @@ [priority |-> to_numeric(matches[k].priority)]]
       IN  joined \o merge(Tail(rows), table)

\* lines 110-114: the sort key order; a missing priority or due date sorts
\* last in its column whatever the direction (na_position="last")
KeyBefore(a, b, descending) ==
  IF a.nan \/ b.nan THEN ~a.nan /\ b.nan
  ELSE IF descending THEN a.v > b.v ELSE a.v < b.v
KeySame(a, b) == (a.nan /\ b.nan) \/ (~a.nan /\ ~b.nan /\ a.v = b.v)

\* the sort with the later due date first
SortsBefore_latest_due_first(x, y) ==
  IF x.Is_Past_Due_45 # y.Is_Past_Due_45 THEN x.Is_Past_Due_45
  ELSE IF ~KeySame(x.priority, y.priority)
       THEN KeyBefore(x.priority, y.priority, TRUE)
  ELSE KeyBefore(x.Due_Date, y.Due_Date, TRUE)

SortsBefore(x, y) ==
  IF x.Is_Past_Due_45 # y.Is_Past_Due_45 THEN x.Is_Past_Due_45
  ELSE IF ~KeySame(x.priority, y.priority)
       THEN KeyBefore(x.priority, y.priority, TRUE)
  ELSE KeyBefore(x.Due_Date, y.Due_Date, FALSE)

\* stable insertion: x goes behind every row it does not sort before
RECURSIVE InsertSorted(_, _)
InsertSorted(x, s) ==
  IF s = <<>> THEN <<x>>
  ELSE IF SortsBefore(x, Head(s)) THEN <<x>> \o s
  ELSE <<Head(s)>> \o InsertSorted(x, Tail(s))

RECURSIVE sort_values(_)
sort_values(s) ==
  IF s = <<>> THEN <<>>
  ELSE InsertSorted(s[Len(s)], sort_values(SubSeq(s, 1, Len(s) - 1)))

\* line 140: groupby("Vendor") visits the groups in ascending key order
\* (sort=True is the default); each group keeps the frame's row order
RECURSIVE SortedKeys(_)
SortedKeys(names) ==
  IF names = {} THEN <<>>
  ELSE LET first == CHOOSE n \in names : \A m \in names \ {n} : StrLt(n, m)
       IN  <<first>> \o SortedKeys(names \ {first})

groupby(rows) ==
  LET keys == SortedKeys({rows[i].Vendor : i \in DOMAIN rows})
  IN  [g \in DOMAIN keys |->
         LET mine(r) == r.Vendor = keys[g]
         IN  [vendor |-> keys[g], group |-> SelectSeq(rows, mine)]]

\* lines 144-172: one vendor's pass from its k-th invoice on
RECURSIVE VendorPass(_, _, _, _, _, _, _)
VendorPass(group, k, global_vendor_budget, weekly_budget, vendor_cumulative, total_cumulative, recommended) ==
  IF k > Len(group)
  THEN [total_cumulative |-> total_cumulative, recommended |-> recommended]
  ELSE
    LET row == group[k]
        invoice_amount == row.Amount
        remaining_vendor_budget == Sub(global_vendor_budget, vendor_cumulative)
        remaining_weekly_budget == Sub(weekly_budget, total_cumulative)
        payment_amount ==
          min(invoice_amount, remaining_vendor_budget, remaining_weekly_budget)
        vendor_cumulative2 == Add(vendor_cumulative, payment_amount)
        total_cumulative2 == Add(total_cumulative, payment_amount)
        recommended2 ==
          Append(recommended,
                 row @@ [Payment_Amount |-> payment_amount,
                         CumulativeVendor |-> vendor_cumulative2,
                         Cumulative |-> total_cumulative2])
    IN  IF Le(payment_amount, F(0))
        THEN [total_cumulative |-> total_cumulative,
              recommended |-> recommended]
        ELSE IF Ge(vendor_cumulative2, global_vendor_budget)
                  \/ Ge(total_cumulative2, weekly_budget)
        THEN [total_cumulative |-> total_cumulative2,
              recommended |-> recommended2]
        ELSE VendorPass(group, k + 1, global_vendor_budget, weekly_budget,
                        vendor_cumulative2, total_cumulative2, recommended2)

\* lines 136-172: the loop over the vendor groups from the g-th on
RECURSIVE Allocate(_, _, _, _, _, _)
Allocate(grouped, g, global_vendor_budget, weekly_budget, total_cumulative, recommended) ==
  IF g > Len(grouped) THEN recommended
  ELSE LET pass == VendorPass(grouped[g].group, 1, global_vendor_budget,
                              weekly_budget, F(0), total_cumulative,
                              recommended)
       IN  Allocate(grouped, g + 1, global_vendor_budget, weekly_budget,
                    pass.total_cumulative, pass.recommended)

\* lines 180-183: one summary row per vendor, in key order
recommended_summary(recommended) ==
  LET keys == SortedKeys({recommended[i].Vendor : i \in DOMAIN recommended})
  IN  [g \in DOMAIN keys |->
         LET mine(r) == r.Vendor = keys[g]
             rows == SelectSeq(recommended, mine)
         IN  [Vendor |-> keys[g],
              Doc_Num |-> [i \in DOMAIN rows |-> rows[i].Doc_Num],
              Payment_Amount |->
                SeqSum([i \in DOMAIN rows |-> rows[i].Payment_Amount.v])]]

\* a column coerced in place: what does not parse becomes NaN
coerceCell(c) == IF c.kind = "num" THEN c ELSE Blank

\* the cross-period filter left out
keep_all(rows, already_recommended) == rows

\* lines 117-118: the rows whose Doc Num was not recommended before
exclude_already(rows, already_recommended) ==
  LET fresh(r) == r.Doc_Num \notin already_recommended
  IN  SelectSeq(rows, fresh)

\* the lookup that takes any week's vendor budget
budget_for_any_week(vendor_budget_df, week_ending) == vendor_budget_df

\* lines 125-127: the vendor budgets listed for the week ending
budget_for_week(vendor_budget_df, week_ending) ==
  LET forWeek(b) == ~isna(b.week_ending) /\ b.week_ending = week_ending
  IN  SelectSeq(vendor_budget_df, forWeek)

\* lines 75-186.  The result carries, beside the returned pair, the three
\* tables the call rewrites in place (lines 85, 106, 121), whether the
\* call raised (float() of a non-numeric weekly budget, line 122) and the
\* candidate rows the allocation loop groups (filtered_df at line 140).
filter_and_recommend(df, weekly_budget, exclusions, vendor_table, week_ending, already_recommended, vendor_budget_df) ==
  LET exclusions_n == {normalize(exclusions[i]) : i \in DOMAIN exclusions}
      df_n == [i \in DOMAIN df |-> [df[i] EXCEPT !.Vendor = normalize(@)]]
      keep(r) == r.Vendor \notin exclusions_n
      isBill(r) == r.Transaction_Type = "Bill"
      hasAmount(r) == ~r.Amount.nan
      recent(r) == Gt(r.Date, F(CutoffDate))
      f1 == SelectSeq(SelectSeq(df_n, keep), isBill)
      f2 == [i \in DOMAIN f1 |-> coerce(f1[i])]
      f3 == SelectSeq(SelectSeq(f2, hasAmount), recent)
      f4 == [i \in DOMAIN f3 |->
               f3[i] @@ [Is_Past_Due_45 |->
                           Ge(f3[i].Past_Due, F(PastDueThreshold))]]
      vendor_table_n ==
        [i \in DOMAIN vendor_table |->
           [vendor_table[i] EXCEPT !.vendor = normalize(@)]]
      sorted == sort_values(merge(f4, vendor_table_n))
      filtered_df == exclude_already(sorted, already_recommended)
      vendor_budget_n ==
        [i \in DOMAIN vendor_budget_df |->
           [vendor_budget_df[i] EXCEPT !.vendor_budget = coerceCell(@)]]
      raised == weekly_budget.kind # "num"
      global_vendor_budget == budget_for_week(vendor_budget_n, week_ending)
      recommended ==
        IF raised \/ global_vendor_budget = <<>> THEN <<>>
        ELSE Allocate(groupby(filtered_df), 1,
                      to_numeric(global_vendor_budget[1].vendor_budget),
                      to_numeric(weekly_budget), F(0), <<>>)
  IN  [df |-> df_n, vendor_table |-> vendor_table_n,
       vendor_budget_df |-> vendor_budget_n, raised |-> raised,
       no_budget |-> ~raised /\ global_vendor_budget = <<>>,
       filtered_df |-> filtered_df,
       recommended |-> recommended,
       summary |-> recommended_summary(recommended)]

\* --------------------------------------------------------------- the report
\* A JSON object is a record with the set of keys it holds; None and the
\* empty object (both false in "if not json_data") have no keys.
\* dict.get(key, default)
get(d, key, default) == IF key \in d.keys THEN d[key] ELSE default

NoRows == [keys |-> {}, Row |-> <<>>]
NoHeader == [keys |-> {}, ColData |-> <<>>]
None == [keys |-> {}, Rows |-> NoRows]

\* the header lost: every row filed under the default category
no_category(section) == "No Category"

\* line 57: the first header cell of a top-level entry
section_header(section) ==
  LET ColData == get(get(section, "Header", NoHeader), "ColData",
                     << [keys |-> {}, value |-> ""] >>)
  IN  get(ColData[1], "value", "No Category")

\* line 58: the row group of a top-level entry
row_data(section) == get(get(section, "Rows", NoRows), "Row", <<>>)

\* lines 59-63: the rows typed "Data" of one top-level entry, the header
\* value in front of their cells; lines 65-70 name the nine columns
section_rows(section) ==
  LET isData(entry) == get(entry, "type", "") = "Data"
      found == SelectSeq(row_data(section), isData)
      record(entry) ==
        LET ColData == get(entry, "ColData", <<>>)
            row_values == <<section_header(section)>>
                            \o [c \in DOMAIN ColData |-> ColData[c].value]
        IN  [Aging_Category |-> row_values[1], Date |-> row_values[2],
             Transaction_Type |-> row_values[3], Doc_Num |-> row_values[4],
             Vendor |-> row_values[5], Due_Date |-> row_values[6],
             Past_Due |-> row_values[7], Amount |-> row_values[8],
             Open_Balance |-> row_values[9]]
  IN  [i \in DOMAIN found |-> record(found[i])]

\* lines 49-70: the rows of all top-level entries, in report order
RECURSIVE all_rows(_)
all_rows(sections) ==
  IF sections = <<>> THEN <<>>
  ELSE section_rows(Head(sections)) \o all_rows(Tail(sections))

extract_data_to_dataframe(json_data) ==
  all_rows(get(get(json_data, "Rows", NoRows), "Row", <<>>))

\* ------------------------------------------------------------ input values
Col(x) == [value |-> x]
Hdr(text) ==
  [keys |-> {"ColData"}, ColData |-> << [keys |-> {"value"}, value |-> text] >>]
RowGroup(entries) == [keys |-> {"Row"}, Row |-> entries]
DataRow(cells) ==
  [keys |-> {"type", "ColData"}, type |-> "Data", Header |-> NoHeader,
   Rows |-> NoRows, ColData |-> [c \in DOMAIN cells |-> Col(cells[c])]]
Section(text, entries) ==
  [keys |-> {"type", "Header", "Rows"}, type |-> "Section",
   Header |-> Hdr(text), Rows |-> RowGroup(entries), ColData |-> <<>>]
Report(sections) == [keys |-> {"Rows"}, Rows |-> RowGroup(sections)]

\* the cells of a report row: Date, Transaction Type, Doc Num, Vendor,
\* Due Date, Past Due, Amount, Open Balance
Cells(date, type, doc, vendor, due, past_due, amount) ==
  <<date, type, doc, vendor, due, past_due, amount, amount>>

InJanuary == Day(20240105)

\* the rows of a sample report, in report order
SampleRows ==
  << Cells(InJanuary, "Bill", "D1", <<" ", "A", "b">>, Day(20240201), Num(60), Num(2)),
     Cells(InJanuary, "Bill", "D2", <<"a", "b", " ">>, Day(20240115), Num(45), Num(4)),
     Cells(InJanuary, "Bill", "D3", <<"B">>, Day(20240120), Num(50), Num(3)),
     Cells(InJanuary, "Bill", "D4", <<"A", "B">>, Text, Num(44), Num(6)),
     Cells(InJanuary, "Bill", "D5", <<"a">>, Day(20240102), Text, Num(0)),
     Cells(InJanuary, "Bill", "D1", <<"a">>, Day(20240110), Num(10), Num(3)),
     Cells(InJanuary, "Bill", "D6", <<"b">>, Day(20240103), Num(90), Num(-2)),
     Cells(InJanuary, "Vendor Credit", "D7", <<"B">>, Day(20240101), Num(90), Num(2)),
     Cells(Day(20231215), "Bill", "D8", <<"b">>, Day(20240101), Num(90), Num(1)),
     Cells(Text, "Bill", "D9", <<"b">>, Day(20240101), Num(90), Text) >>

\* the elements of s at the indices in I, in the order of s
RECURSIVE SubList(_, _)
SubList(s, I) ==
  IF I = {} THEN <<>>
  ELSE LET last == CHOOSE i \in I : \A j \in I : j <= i
       IN  Append(SubList(s, I \ {last}), s[last])

\* the sequences of at most n different elements of S
SeqsUpTo(S, n) ==
  UNION { {q \in [1..k -> S] : \A i, j \in 1..k : i # j => q[i] # q[j]} :
            k \in 0..n }

\* fetch_ap_aging_from_qbo() returned nothing, or a report of one section
\* that holds at most MaxRows of the sample rows
Reports ==
  {None} \cup
  { LET cells == SubList(SampleRows, I)
    IN  Report(<< Section("Current", [i \in DOMAIN cells |-> DataRow(cells[i])]) >>) :
      I \in {J \in SUBSET DOMAIN SampleRows : J # {} /\ Cardinality(J) <= MaxRows} }

\* entries of the reports the normaliser is checked on: sections with and
\* without header or row group, a row group that holds a sub-section and an
\* entry without type beside its rows, a row outside any section
Untyped ==
  [keys |-> {"ColData"}, type |-> "", Header |-> NoHeader, Rows |-> NoRows,
   ColData |-> [c \in DOMAIN SampleRows[8] |-> Col(SampleRows[8][c])]]
GrandTotal ==
  [keys |-> {"type"}, type |-> "Section", Header |-> NoHeader,
   Rows |-> NoRows, ColData |-> <<>>]
Headerless(entries) ==
  [keys |-> {"type", "Rows"}, type |-> "Section", Header |-> NoHeader,
   Rows |-> RowGroup(entries), ColData |-> <<>>]

EntryPool ==
  { Section("Current", << DataRow(SampleRows[1]) >>),
    Section("1 - 30", << DataRow(SampleRows[2]), Untyped, DataRow(SampleRows[3]) >>),
    Section("31 - 60", << Section("Sub", << DataRow(SampleRows[4]) >>),
                         DataRow(SampleRows[5]) >>),
    Section("61 - 90", <<>>),
    Headerless(<< DataRow(SampleRows[6]) >>),
    GrandTotal,
    DataRow(SampleRows[7]),
    Section("91 and over", << Section("Sub", << DataRow(SampleRows[9]) >>) >>) }

\* what fetch_ap_aging_from_qbo() may hand to the normaliser: nothing, an
\* object without "Rows", one whose "Rows" has no "Row", or a report of at
\* most MaxSections entries
Payloads ==
  { None,
    [keys |-> {"Header", "Columns"}, Rows |-> NoRows],
    [keys |-> {"Header", "Rows"}, Rows |-> NoRows] }
  \cup { Report(entries) : entries \in SeqsUpTo(EntryPool, MaxSections) }

\* rows of the Config sheet
BudgetRow(week, weekly, vendor) ==
  [config_type |-> "budget", vendor_name |-> <<>>, named |-> FALSE,
   week_ending |-> week, weekly_budget |-> weekly, vendor_budget |-> vendor]
ExclusionRow(name) ==
  [config_type |-> "exclusion", vendor_name |-> name, named |-> TRUE,
   week_ending |-> Blank, weekly_budget |-> Blank, vendor_budget |-> Blank]

PeriodPool ==
  { BudgetRow(Day(20240107), Num(5), Num(5)),
    BudgetRow(Day(20240114), Num(14), Num(3)),
    BudgetRow(Day(20240121), Num(4), Blank),
    BudgetRow(Day(20240128), Text, Num(5)),
    BudgetRow(Blank, Num(5), Num(5)),
    BudgetRow(Day(20240204), Num(9), Text) }

ExclusionPool == { <<>>, << ExclusionRow(<<" ", "A", "B">>) >> }

VendorTables ==
  { << [vendor |-> <<"B">>, priority |-> Num(2)],
       [vendor |-> <<"a", "b">>, priority |-> Num(1)] >>,
    << [vendor |-> <<"A", "b", " ">>, priority |-> Num(1)],
       [vendor |-> <<"a", "b">>, priority |-> Num(3)] >> }

\* ------------------------------------------------------------------- state
VARIABLES
  pc,                  \* where main is: "start", "config", "loop", "done"
  json_data,           \* what fetch_ap_aging_from_qbo() returned
  budget,              \* the Config sheet
  df,                  \* the ledger; <<>> stands for None
  vendor_table,        \* the Vendors sheet
  exclusions_list,
  weekly_budget_df,
  vendor_budget_df,
  row,                 \* index of the next row of weekly_budget_df
  already_recommended,
  all_recommendations,
  recommended,         \* what the last engine call returned
  summary,             \* (<<>> stands for an empty table and for None)
  saved,               \* what save_recommendations wrote; <<>> when nothing
  failed,              \* an exception reached line 114
  settings,            \* QBO_REALM_ID and QBO_ACCESS_TOKEN of settings.py
  headers,             \* the Authorization header of the report request
  response,            \* what requests.get returned last
  tokens,              \* what refresh_access_token returned
  env_file,            \* the keys update_env_file wrote to config/.env
  http_log             \* the requests sent so far, with the status of each

fetchVars == <<settings, headers, response, tokens, env_file, http_log>>

vars == <<pc, json_data, budget, df, vendor_table, exclusions_list,
          weekly_budget_df, vendor_budget_df, row, already_recommended,
          all_recommendations, recommended, summary, saved, failed,
          settings, headers, response, tokens, env_file, http_log>>

\* The report request is followed in SpecFetch only; elsewhere json_data
\* stands for whatever it returned and these variables stay as they are.
NoResponse == [status_code |-> 0, json |-> None]
NoTokens == [keys |-> {}, access_token |-> "", refresh_token |-> ""]
FetchNotFollowed ==
  /\ settings = [QBO_REALM_ID |-> "realm", QBO_ACCESS_TOKEN |-> "t0"]
  /\ headers = ""
  /\ response = NoResponse
  /\ tokens = NoTokens
  /\ env_file = [QBO_ACCESS_TOKEN |-> "", QBO_REFRESH_TOKEN |-> ""]
  /\ http_log = <<>>

Init ==
  /\ pc = "start"
  /\ json_data \in Reports
  /\ \E periods \in SeqsUpTo(PeriodPool, MaxPeriods), excl \in ExclusionPool :
       budget = excl \o periods
  /\ vendor_table \in VendorTables
  /\ df = <<>>
  /\ exclusions_list = <<>>
  /\ weekly_budget_df = <<>>
  /\ vendor_budget_df = <<>>
  /\ row = 1
  /\ already_recommended = {}
  /\ all_recommendations = <<>>
  /\ recommended = <<>>
  /\ summary = <<>>
  /\ saved = <<>>
  /\ failed = FALSE
  /\ FetchNotFollowed

\* AP_Calc.py lines 201-216, main.py lines 34-36 and 116-117: the report is
\* normalised; without a ledger the run ends.
validate_and_process_report ==
  /\ pc = "start"
  /\ df' = IF json_data.keys = {} THEN <<>>
           ELSE extract_data_to_dataframe(json_data)
  /\ pc' = IF df' = <<>> THEN "done" ELSE "config"
  /\ UNCHANGED fetchVars
  /\ UNCHANGED <<json_data, budget, vendor_table, exclusions_list,
                 weekly_budget_df, vendor_budget_df, row, already_recommended,
                 all_recommendations, recommended, summary, saved, failed>>

\* main.py lines 56-60: the names on the exclusion rows, lower-cased
exclusion_names(sheet) ==
  LET isExclusion(b) == b.config_type = "exclusion" /\ b.named
      rows == SelectSeq(sheet, isExclusion)
  IN  [i \in DOMAIN rows |-> lower(rows[i].vendor_name)]

\* main.py lines 63-67: the budget rows that state a weekly budget
weekly_rows(sheet) ==
  LET isWeekly(b) == b.config_type = "budget" /\ ~isna(b.weekly_budget)
      rows == SelectSeq(sheet, isWeekly)
  IN  [i \in DOMAIN rows |->
         [week_ending |-> rows[i].week_ending,
          weekly_budget |-> rows[i].weekly_budget]]

\* main.py lines 70-74: the budget rows that state a vendor budget
vendor_rows(sheet) ==
  LET isVendor(b) == b.config_type = "budget" /\ ~isna(b.vendor_budget)
      rows == SelectSeq(sheet, isVendor)
  IN  [i \in DOMAIN rows |->
         [week_ending |-> rows[i].week_ending,
          vendor_budget |-> rows[i].vendor_budget]]

\* main.py lines 38-81
LoadConfig ==
  /\ pc = "config"
  /\ exclusions_list' = exclusion_names(budget)
  /\ weekly_budget_df' = weekly_rows(budget)
  /\ vendor_budget_df' = vendor_rows(budget)
  /\ already_recommended' = {}
  /\ all_recommendations' = <<>>
  /\ row' = 1
  /\ pc' = "loop"
  /\ UNCHANGED fetchVars
  /\ UNCHANGED <<json_data, budget, df, vendor_table, recommended, summary,
                 saved, failed>>

\* main.py lines 82-89: a row without week ending or weekly budget
SkipPeriod ==
  /\ pc = "loop"
  /\ row <= Len(weekly_budget_df)
  /\ isna(weekly_budget_df[row].week_ending)
       \/ isna(weekly_budget_df[row].weekly_budget)
  /\ row' = row + 1
  /\ UNCHANGED fetchVars
  /\ UNCHANGED <<pc, json_data, budget, df, vendor_table, exclusions_list,
                 weekly_budget_df, vendor_budget_df, already_recommended,
                 all_recommendations, recommended, summary, saved, failed>>

\* the engine call of main.py line 92 for the current row
Call ==
  filter_and_recommend(df, weekly_budget_df[row].weekly_budget,
                       exclusions_list, vendor_table,
                       weekly_budget_df[row].week_ending, already_recommended,
                       vendor_budget_df)

Callable ==
  /\ pc = "loop"
  /\ row <= Len(weekly_budget_df)
  /\ ~isna(weekly_budget_df[row].week_ending)
  /\ ~isna(weekly_budget_df[row].weekly_budget)

\* main.py line 99: recommended["Week Ending"] = week_ending (a table
\* without rows stays as it is)
Tagged(recs, week_ending) ==
  [i \in DOMAIN recs |-> recs[i] @@ [Week_Ending |-> week_ending]]

\* main.py lines 91-100: one period through the engine
ProcessPeriod ==
  /\ Callable
  /\ LET call == Call
         week_ending == weekly_budget_df[row].week_ending
     IN  /\ ~call.raised
         /\ df' = call.df
         /\ vendor_table' = call.vendor_table
         /\ vendor_budget_df' = call.vendor_budget_df
         /\ recommended' = Tagged(call.recommended, week_ending)
         /\ summary' = call.summary
         /\ IF call.recommended # <<>>
            THEN /\ already_recommended' =
                      already_recommended
                        \cup {call.recommended[i].Doc_Num :
                                i \in DOMAIN call.recommended}
                 /\ all_recommendations' = all_recommendations \o recommended'
            ELSE UNCHANGED <<already_recommended, all_recommendations>>
  /\ row' = row + 1
  /\ UNCHANGED fetchVars
  /\ UNCHANGED <<pc, json_data, budget, exclusions_list, weekly_budget_df,
                 saved, failed>>

\* AP_Calc.py line 122 raises; main.py lines 114-115 catch it after the loop
\* and the save have been left
PeriodRaises ==
  /\ Callable
  /\ LET call == Call
     IN  /\ call.raised
         /\ df' = call.df
         /\ vendor_table' = call.vendor_table
         /\ vendor_budget_df' = call.vendor_budget_df
  /\ failed' = TRUE
  /\ pc' = "done"
  /\ UNCHANGED fetchVars
  /\ UNCHANGED <<json_data, budget, exclusions_list, weekly_budget_df, row,
                 already_recommended, all_recommendations, recommended,
                 summary, saved>>

\* main.py lines 103-112: the combined table is saved and uploaded when it
\* has rows
SaveRecommendations ==
  /\ pc = "loop"
  /\ row > Len(weekly_budget_df)
  /\ saved' = all_recommendations
  /\ pc' = "done"
  /\ UNCHANGED fetchVars
  /\ UNCHANGED <<json_data, budget, df, vendor_table, exclusions_list,
                 weekly_budget_df, vendor_budget_df, row, already_recommended,
                 all_recommendations, recommended, summary, failed>>

Next ==
  \/ validate_and_process_report
  \/ LoadConfig
  \/ SkipPeriod
  \/ ProcessPeriod
  \/ PeriodRaises
  \/ SaveRecommendations

Spec == Init /\ [][Next]_vars

\* The normaliser alone, on reports of every shape, without configuration.
InitReport ==
  /\ pc = "start"
  /\ json_data \in Payloads
  /\ budget = <<>>
  /\ vendor_table = <<>>
  /\ df = <<>>
  /\ exclusions_list = <<>>
  /\ weekly_budget_df = <<>>
  /\ vendor_budget_df = <<>>
  /\ row = 1
  /\ already_recommended = {}
  /\ all_recommendations = <<>>
  /\ recommended = <<>>
  /\ summary = <<>>
  /\ saved = <<>>
  /\ failed = FALSE
  /\ FetchNotFollowed

NextReport == validate_and_process_report

SpecReport == InitReport /\ [][NextReport]_vars

\* main.py lines 77-115 as a function of the rows of weekly_budget_df: what
\* the loop and the save leave behind when started on these rows
RECURSIVE RunPeriods(_, _, _, _, _, _, _)
RunPeriods(rows, ledger, exclusions, table, vendor_budgets, already, combined) ==
  IF rows = <<>>
  THEN [failed |-> FALSE, saved |-> combined, already_recommended |-> already]
  ELSE IF isna(Head(rows).week_ending) \/ isna(Head(rows).weekly_budget)
  THEN RunPeriods(Tail(rows), ledger, exclusions, table, vendor_budgets,
                  already, combined)
  ELSE LET call == filter_and_recommend(ledger, Head(rows).weekly_budget,
                                        exclusions, table,
                                        Head(rows).week_ending, already,
                                        vendor_budgets)
       IN  IF call.raised
           THEN [failed |-> TRUE, saved |-> <<>>,
                 already_recommended |-> already]
           ELSE RunPeriods(Tail(rows), call.df, exclusions, call.vendor_table,
                           call.vendor_budget_df,
                           already \cup {call.recommended[i].Doc_Num :
                                           i \in DOMAIN call.recommended},
                           combined \o Tagged(call.recommended,
                                              Head(rows).week_ending))

\* ------------------------------------------------------------- properties
\* The last row of weekly_budget_df the loop has gone through, and whether
\* the engine was called for it (then recommended and summary are what that
\* call returned).
Last == weekly_budget_df[row - 1]
LastWasCall == row > 1 /\ ~isna(Last.week_ending)

PaymentSum(recs) == SeqSum([i \in DOMAIN recs |-> recs[i].Payment_Amount.v])
OfVendor(recs, vendor) ==
  LET mine(r) == r.Vendor = vendor IN SelectSeq(recs, mine)
Vendors(recs) == {recs[i].Vendor : i \in DOMAIN recs}

\* the vendor budget the engine resolved for the last call
LastVendorBudget ==
  to_numeric(budget_for_week(vendor_budget_df, Last.week_ending)[1].vendor_budget)

C2_VendorBudgetNeverExceeded ==
  (LastWasCall /\ recommended # <<>>) =>
    \A vendor \in Vendors(recommended) :
      Le(F(PaymentSum(OfVendor(recommended, vendor))), LastVendorBudget)

\* C3: every recommendation pays more than nothing and at most the amount
\* of its invoice.
C3_PaymentWithinInvoice ==
  \A i \in DOMAIN all_recommendations :
    /\ Gt(all_recommendations[i].Payment_Amount, F(0))
    /\ Le(all_recommendations[i].Payment_Amount, all_recommendations[i].Amount)

\* a part payment is recorded while the ledger holds a bill of amount zero
\* or less
C3_Witness ==
  /\ \E i \in DOMAIN all_recommendations :
       Lt(all_recommendations[i].Payment_Amount, all_recommendations[i].Amount)
  /\ \E i \in DOMAIN df :
       /\ df[i].Transaction_Type = "Bill"
       /\ Le(to_numeric(df[i].Amount), F(0))

\* the names on the exclusion rows of the Config sheet, case-folded and trimmed
ConfiguredExclusions ==
  { strip(lower(budget[i].vendor_name)) :
      i \in {j \in DOMAIN budget :
               budget[j].config_type = "exclusion" /\ budget[j].named} }
Excluded(name) == strip(lower(name)) \in ConfiguredExclusions

\* C4: no recommendation of any period names a vendor of the exclusion list,
\* whatever the letter case and the blanks around the two names; a ledger of
\* excluded vendors only yields no recommendation at all.
C4_ExcludedVendorsNeverRecommended ==
  /\ \A i \in DOMAIN all_recommendations :
       ~Excluded(all_recommendations[i].Vendor)
  /\ \A i \in DOMAIN saved : ~Excluded(saved[i].Vendor)
  /\ (\A i \in DOMAIN df : Excluded(df[i].Vendor)) => all_recommendations = <<>>

\* a payable bill of an excluded vendor is in the ledger, the report spells
\* the vendor otherwise than the exclusion row, and another vendor is paid
C4_Witness ==
  /\ all_recommendations # <<>>
  /\ \E i \in DOMAIN df :
       /\ Excluded(df[i].Vendor)
       /\ df[i].Transaction_Type = "Bill"
       /\ Gt(to_numeric(df[i].Amount), F(0))
  /\ LET rows == json_data.Rows.Row[1].Rows.Row
     IN  \E i \in DOMAIN rows :
           /\ Excluded(rows[i].ColData[4].value)
           /\ \A j \in DOMAIN budget :
                budget[j].vendor_name # rows[i].ColData[4].value

\* the recommendations of the periods before the last engine call
Earlier ==
  SubSeq(all_recommendations, 1, Len(all_recommendations) - Len(recommended))
DocNums(recs) == {recs[i].Doc_Num : i \in DOMAIN recs}

\* C5: what a period recommends was recommended in no earlier period: the
\* combined table is the earlier periods' rows followed by the period's own,
\* and the two share no Doc Num.
C5_NoDocNumInTwoPeriods ==
  /\ DocNums(all_recommendations) = already_recommended
  /\ (LastWasCall /\ recommended # <<>>) =>
       /\ Len(recommended) <= Len(all_recommendations)
       /\ all_recommendations = Earlier \o recommended
       /\ DocNums(Earlier) \cap DocNums(recommended) = {}

\* a later period pays and ends with weekly budget left, and with vendor
\* budget left for the vendor of an invoice that an earlier period paid
C5_Witness ==
  /\ LastWasCall /\ recommended # <<>>
  /\ PaymentSum(recommended) < to_numeric(Last.weekly_budget).v
  /\ \E i \in DOMAIN Earlier :
       Lt(F(PaymentSum(OfVendor(recommended, Earlier[i].Vendor))),
          LastVendorBudget)

Urgent(r) == Ge(r.Past_Due, F(PastDueThreshold))

\* C6: among the recommendations of one period for one vendor, none that is
\* 45 days or more past due comes after one that is not, and of two with the
\* same urgency and priority the one due earlier comes first.
C6_OrderWithinVendor ==
  \A i, j \in DOMAIN recommended :
    (i < j /\ recommended[i].Vendor = recommended[j].Vendor) =>
      /\ Urgent(recommended[j]) => Urgent(recommended[i])
      /\ ( /\ Urgent(recommended[i]) = Urgent(recommended[j])
            /\ KeySame(recommended[i].priority, recommended[j].priority)
            /\ ~recommended[i].Due_Date.nan
            /\ ~recommended[j].Due_Date.nan )
          => recommended[i].Due_Date.v <= recommended[j].Due_Date.v

\* the scenario of the specification in units of 50: bills of 4 (due 15
\* January) and 2 (due 1 February) from one vendor against budgets of 5 are
\* paid 4 and then 1, though the report lists the later one first
C6_Witness ==
  /\ LastWasCall
  /\ to_numeric(Last.weekly_budget) = F(5)
  /\ LastVendorBudget = F(5)
  /\ Len(recommended) = 2
  /\ recommended[1].Doc_Num = "D2" /\ recommended[1].Payment_Amount = F(4)
  /\ recommended[1].Due_Date = F(20240115)
  /\ recommended[2].Doc_Num = "D1" /\ recommended[2].Payment_Amount = F(1)
  /\ recommended[2].Due_Date = F(20240201)
  /\ recommended[1].Vendor = recommended[2].Vendor
  /\ recommended[2].Cumulative = F(5)
  /\ recommended[2].CumulativeVendor = F(5)
  /\ df[1].Doc_Num = "D1"

FirstOfVendor(recs, i) == \A k \in 1..(i - 1) : recs[k].Vendor # recs[i].Vendor

\* C7: the vendors of a period are visited in the order of their best
\* invoices in the sorted candidate list: of two vendors paid in a period,
\* the one paid first does not have its first invoice sort behind the
\* other's.
C7_VendorsVisitedInSortOrder ==
  \A i, j \in DOMAIN recommended :
    (i < j /\ FirstOfVendor(recommended, i) /\ FirstOfVendor(recommended, j))
      => ~SortsBefore(recommended[j], recommended[i])

\* the Config sheet states a vendor budget for the week ending
HasVendorBudget(week_ending) ==
  \E i \in DOMAIN budget :
    /\ budget[i].config_type = "budget"
    /\ ~isna(budget[i].vendor_budget)
    /\ ~isna(budget[i].week_ending)
    /\ budget[i].week_ending = week_ending
NoVendorBudget(period) ==
  /\ ~isna(period.week_ending)
  /\ ~isna(period.weekly_budget)
  /\ ~HasVendorBudget(period.week_ending)

\* the run on the same report and sheets with the given rows of
\* weekly_budget_df only
RunOn(rows) ==
  RunPeriods(rows, extract_data_to_dataframe(json_data),
             exclusion_names(budget), vendor_table, vendor_rows(budget),
             {}, <<>>)

\* C8: a period for whose week ending no vendor budget is listed gets an
\* empty table and no summary from the engine, and the run ends as it would
\* without the period in the configuration: same combined output, same
\* already-recommended set.
C8_PeriodWithoutVendorBudget ==
  /\ (LastWasCall /\ NoVendorBudget(Last)) =>
       recommended = <<>> /\ summary = <<>>
  /\ (pc = "done" /\ df # <<>>) =>
       LET budgeted(period) == ~NoVendorBudget(period)
           without == RunOn(SelectSeq(weekly_rows(budget), budgeted))
       IN  /\ failed = without.failed
           /\ saved = without.saved
           /\ already_recommended = without.already_recommended

\* a run has ended whose output holds a period that came after a period
\* without vendor budget
C8_Witness ==
  /\ pc = "done"
  /\ \E k, m \in DOMAIN weekly_budget_df :
       /\ k < m
       /\ NoVendorBudget(weekly_budget_df[k])
       /\ \E i \in DOMAIN saved :
            saved[i].Week_Ending = weekly_budget_df[m].week_ending

\* C9: a period whose week ending or weekly budget is missing or does not
\* parse is skipped: the run does not fail, and its output is that of the
\* periods whose week ending is present and whose weekly budget is a number.
C9_BadPeriodIsSkipped ==
  (pc = "done" /\ df # <<>>) =>
    LET valid(period) ==
          ~isna(period.week_ending) /\ period.weekly_budget.kind = "num"
    IN  /\ ~failed
        /\ saved = RunOn(SelectSeq(weekly_rows(budget), valid)).saved

\* the report read without the normaliser: its top-level entries, the row
\* group and the header of an entry
HasSections == "Rows" \in json_data.keys /\ "Row" \in json_data.Rows.keys
TopEntries == IF HasSections THEN json_data.Rows.Row ELSE <<>>
GroupOf(entry) ==
  IF "Rows" \in entry.keys /\ "Row" \in entry.Rows.keys
  THEN entry.Rows.Row ELSE <<>>
HeaderOf(entry) ==
  IF "Header" \in entry.keys /\ "ColData" \in entry.Header.keys
  THEN entry.Header.ColData[1].value ELSE "No Category"
IsDataRow(entry) == "type" \in entry.keys /\ entry.type = "Data"

\* the rows typed "Data" in the row group of an entry and in the row groups
\* nested in it, at any depth
RECURSIVE DataRowsWithin(_)
DataRowsWithin(entry) ==
  LET group == GroupOf(entry)
  IN  SeqSum([k \in DOMAIN group |->
                (IF IsDataRow(group[k]) THEN 1 ELSE 0)
                  + DataRowsWithin(group[k])])
DataRowsAnywhere ==
  SeqSum([i \in DOMAIN TopEntries |-> DataRowsWithin(TopEntries[i])])

\* the places <<i, k>> of the rows typed "Data" that stand directly in the
\* row group of the i-th top-level entry, in report order
RECURSIVE DataPlaces(_)
DataPlaces(i) ==
  IF i > Len(TopEntries) THEN <<>>
  ELSE LET group == GroupOf(TopEntries[i])
           isData(place) == IsDataRow(group[place[2]])
       IN  SelectSeq([k \in DOMAIN group |-> <<i, k>>], isData)
             \o DataPlaces(i + 1)

\* C10 as stated: the ledger has one row for every row typed "Data" anywhere
\* in the nested row groups of the report.
C10_OneRowPerDataRowAnywhere ==
  pc # "start" => Len(df) = DataRowsAnywhere

\* C10 as amended: the ledger has one row, in report order, for every row
\* typed "Data" that stands directly in the row group of a top-level entry,
\* with that entry's header value (or "No Category") as Aging Category and
\* the row's eight cells in the other columns; a report without "Rows" or
\* "Row", or without such rows, gives no ledger (None) and ends the run
\* without an exception.
C10_OneRowPerSectionDataRow ==
  pc # "start" =>
    LET places == DataPlaces(1)
    IN  /\ Len(df) = Len(places)
        /\ \A n \in DOMAIN df :
             LET entry == TopEntries[places[n][1]]
                 cells == GroupOf(entry)[places[n][2]].ColData
             IN  /\ df[n].Aging_Category = HeaderOf(entry)
                 /\ df[n].Date = cells[1].value
                 /\ df[n].Transaction_Type = cells[2].value
                 /\ df[n].Doc_Num = cells[3].value
                 /\ df[n].Vendor = cells[4].value
                 /\ df[n].Due_Date = cells[5].value
                 /\ df[n].Past_Due = cells[6].value
                 /\ df[n].Amount = cells[7].value
                 /\ df[n].Open_Balance = cells[8].value
        /\ ~HasSections => df = <<>>
        /\ df = <<>> => (pc = "done" /\ ~failed)

\* a ledger of rows from two sections was built from a report that also
\* holds an entry of another type and a row typed "Data" in a sub-section
C10_Witness ==
  /\ pc = "config"
  /\ \E n, m \in DOMAIN df : df[n].Aging_Category # df[m].Aging_Category
  /\ DataRowsAnywhere > Len(df)
  /\ \E i \in DOMAIN TopEntries :
       \E k \in DOMAIN GroupOf(TopEntries[i]) :
         ~IsDataRow(GroupOf(TopEntries[i])[k])

\* a step of the run in which the engine is called (main.py line 92)
EngineCall == ProcessPeriod \/ PeriodRaises

\* C11: an engine call leaves the ledger as it was, rows and field values
\* (vendor names included), and changes the already-recommended set only by
\* the orchestrator's update with the Doc Nums the call returned.
C11_EngineLeavesInputsUnchanged ==
  [][EngineCall =>
       /\ df' = df
       /\ already_recommended' =
            already_recommended
              \cup {recommended'[i].Doc_Num : i \in DOMAIN recommended'}]_vars

\* the vendor groups of an engine call and the budgets of its loop
GroupsOf(call) == groupby(call.filtered_df)
VendorBudgetOf(call, week_ending) ==
  to_numeric(budget_for_week(call.vendor_budget_df, week_ending)[1].vendor_budget)

\* total_cumulative when the loop enters its g-th vendor group
EnteringTotal(grouped, g, global_vendor_budget, weekly_budget) ==
  LET before == Allocate(SubSeq(grouped, 1, g - 1), 1, global_vendor_budget,
                         weekly_budget, F(0), <<>>)
  IN  IF before = <<>> THEN F(0) ELSE before[Len(before)].Cumulative

\* The pass over a group pays its first n invoices.  It stops at invoice
\* n + 1 on payment_amount <= 0 (line 158) when invoices are left and the
\* n-th payment did not reach a cap (line 171); then no invoice after
\* n + 1 could be paid anything from what is left of the two budgets.
NothingFundableAfterStop(group, entering, global_vendor_budget, weekly_budget) ==
  LET pass == VendorPass(group, 1, global_vendor_budget, weekly_budget,
                         F(0), entering, <<>>)
      n == Len(pass.recommended)
      vendor_cumulative ==
        IF n = 0 THEN F(0) ELSE pass.recommended[n].CumulativeVendor
      total_cumulative == pass.total_cumulative
      capped == /\ n > 0
                /\ \/ Ge(vendor_cumulative, global_vendor_budget)
                   \/ Ge(total_cumulative, weekly_budget)
  IN  (n < Len(group) /\ ~capped) =>
        \A j \in (n + 2)..Len(group) :
          Le(min(group[j].Amount,
                 Sub(global_vendor_budget, vendor_cumulative),
                 Sub(weekly_budget, total_cumulative)),
             F(0))

\* C12: whenever a vendor's pass stops because the payment computed for an
\* invoice is <= 0, every later invoice of the vendor would also get a
\* payment <= 0 from the budgets left at that moment.
C12_StopLeavesNothingFundable ==
  [][ProcessPeriod =>
       LET call == Call
           week_ending == weekly_budget_df[row].week_ending
       IN  ~call.no_budget =>
             LET grouped == GroupsOf(call)
                 vendor_budget == VendorBudgetOf(call, week_ending)
                 weekly_budget == to_numeric(weekly_budget_df[row].weekly_budget)
             IN  \A g \in DOMAIN grouped :
                   NothingFundableAfterStop(
                     grouped[g].group,
                     EnteringTotal(grouped, g, vendor_budget, weekly_budget),
                     vendor_budget, weekly_budget)]_vars

\* ------------------------------------------------------- the report request
\* What the reporting API may answer to the report GET: 200 with a payload,
\* or an error status (the body of an error is only logged).
Responses ==
  {[status_code |-> 200, json |-> p] : p \in Payloads}
    \cup {[status_code |-> c, json |-> None] : c \in {401, 403, 500}}

\* What the token endpoint may answer to the refresh POST.
NewTokens ==
  [keys |-> {"access_token", "refresh_token"},
   access_token |-> "t1", refresh_token |-> "r1"]
TokenBodies ==
  { NewTokens,
    [keys |-> {"refresh_token"}, access_token |-> "", refresh_token |-> "r1"],
    NoTokens }
TokenResponses ==
  {[status_code |-> 200, json |-> t] : t \in TokenBodies}
    \cup {[status_code |-> 400, json |-> NoTokens]}

\* api_qbo.py lines 41-72: the key is set to the value in config/.env
update_env_file(env, key, value) == [env EXCEPT ![key] = value]

\* api_qbo.py lines 11-39 on the answer of the token endpoint: the tokens
\* returned (None is the object without keys) and the .env file left behind
refresh_access_token(answer, env) ==
  IF answer.status_code = 200
  THEN [tokens |-> answer.json,
        env_file |->
          update_env_file(
            update_env_file(env, "QBO_ACCESS_TOKEN",
                            get(answer.json, "access_token", "None")),
            "QBO_REFRESH_TOKEN", get(answer.json, "refresh_token", "None"))]
  ELSE [tokens |-> NoTokens, env_file |-> env]

\* the retry taken whatever the refresh returned
retry_always(t) == TRUE

\* AP_Calc.py line 29: tokens and "access_token" in tokens
token_refreshed(t) == t.keys # {} /\ "access_token" \in t.keys

Sent(method, answer) ==
  Append(http_log, [method |-> method, status_code |-> answer.status_code])

mainVars ==
  <<budget, df, vendor_table, exclusions_list, weekly_budget_df,
    vendor_budget_df, row, already_recommended, all_recommendations,
    recommended, summary, saved, failed>>

\* AP_Calc.py lines 16-25: without realm id or access token nothing is
\* sent and None is returned; otherwise the report is requested
FetchReport ==
  /\ pc = "fetch"
  /\ IF settings.QBO_REALM_ID = "" \/ settings.QBO_ACCESS_TOKEN = ""
     THEN /\ json_data' = None
          /\ pc' = "start"
          /\ UNCHANGED <<headers, response, http_log>>
     ELSE /\ headers' = settings.QBO_ACCESS_TOKEN
          /\ \E answer \in Responses :
               /\ response' = answer
               /\ http_log' = Sent("GET", answer)
          /\ pc' = "responded"
          /\ UNCHANGED json_data
  /\ UNCHANGED <<settings, tokens, env_file>>
  /\ UNCHANGED mainVars

\* AP_Calc.py lines 26-28: on 401 the token is refreshed
RefreshToken ==
  /\ pc = "responded"
  /\ response.status_code = 401
  /\ \E answer \in TokenResponses :
       LET refreshed == refresh_access_token(answer, env_file)
       IN  /\ tokens' = refreshed.tokens
           /\ env_file' = refreshed.env_file
           /\ http_log' = Sent("POST", answer)
  /\ pc' = "refreshed"
  /\ UNCHANGED <<json_data, settings, headers, response>>
  /\ UNCHANGED mainVars

\* AP_Calc.py lines 29-33: with a new access token the report is requested
\* once more
RetryReport ==
  /\ pc = "refreshed"
  /\ token_refreshed(tokens)
  /\ headers' = tokens.access_token
  /\ env_file' = update_env_file(env_file, "QBO_ACCESS_TOKEN",
                                 tokens.access_token)
  /\ \E answer \in Responses :
       /\ response' = answer
       /\ http_log' = Sent("GET", answer)
  /\ pc' = "retried"
  /\ UNCHANGED <<json_data, settings, tokens>>
  /\ UNCHANGED mainVars

\* AP_Calc.py lines 34-36: without a new access token None is returned
RefreshFailed ==
  /\ pc = "refreshed"
  /\ ~token_refreshed(tokens)
  /\ json_data' = None
  /\ pc' = "start"
  /\ UNCHANGED fetchVars
  /\ UNCHANGED mainVars

\* AP_Calc.py lines 38-44: the payload on 200, None on any other status
ReturnReport ==
  /\ \/ pc = "responded" /\ response.status_code # 401
     \/ pc = "retried"
  /\ json_data' = IF response.status_code = 200 THEN response.json ELSE None
  /\ pc' = "start"
  /\ UNCHANGED fetchVars
  /\ UNCHANGED mainVars

\* fetch_ap_aging_from_qbo as called at AP_Calc.py line 203, up to its
\* return; the steps follow each other without waiting for anything but
\* the answers.
InitFetch ==
  /\ pc = "fetch"
  /\ json_data = None
  /\ settings \in [QBO_REALM_ID : {"", "realm"}, QBO_ACCESS_TOKEN : {"", "t0"}]
  /\ headers = ""
  /\ response = NoResponse
  /\ tokens = NoTokens
  /\ env_file = [QBO_ACCESS_TOKEN |-> "", QBO_REFRESH_TOKEN |-> ""]
  /\ http_log = <<>>
  /\ budget = <<>>
  /\ vendor_table = <<>>
  /\ df = <<>>
  /\ exclusions_list = <<>>
  /\ weekly_budget_df = <<>>
  /\ vendor_budget_df = <<>>
  /\ row = 1
  /\ already_recommended = {}
  /\ all_recommendations = <<>>
  /\ recommended = <<>>
  /\ summary = <<>>
  /\ saved = <<>>
  /\ failed = FALSE

NextFetch ==
  \/ FetchReport
  \/ RefreshToken
  \/ RetryReport
  \/ RefreshFailed
  \/ ReturnReport

SpecFetch == InitFetch /\ [][NextFetch]_vars /\ WF_vars(NextFetch)

\* the requests of one method sent so far
SentBy(method) ==
  LET mine(m) == m.method = method IN SelectSeq(http_log, mine)
Gets == SentBy("GET")
Refreshes == SentBy("POST")

\* what the claim lets the function return: the payload of the last GET
\* when that GET was answered 200, None otherwise
Returned == pc = "start"
LastGetOk == Gets # <<>> /\ Gets[Len(Gets)].status_code = 200

FetchBounded ==
  /\ Len(Refreshes) <= 1
  /\ Len(Gets) <= 2
  /\ Len(Gets) = 2 =>
       /\ Len(http_log) = 3
       /\ http_log[1] = [method |-> "GET", status_code |-> 401]
       /\ http_log[2] = [method |-> "POST", status_code |-> 200]
       /\ http_log[3].method = "GET"
  /\ Returned =>
       /\ LastGetOk => json_data = response.json
       /\ ~LastGetOk => json_data = None

\* C13: the token refresh is attempted at most once and the report GET is
\* issued at most twice, the second time only after a 401 and a refresh
\* answered 200; the function always returns, with the payload of the last
\* GET when that GET was answered 200 and with None in every other case.
C13_FetchRetriesOnce == []FetchBounded /\ <>Returned

\* the function returned a report it got at the second request, after a
\* 401 and a refresh
C13_Witness ==
  /\ Returned
  /\ Len(Gets) = 2
  /\ Len(Refreshes) = 1
  /\ json_data = response.json
  /\ json_data.keys # {}

====
